---------------------------- MODULE Spec2Model ----------------------------
(***************************************************************************)
(* Collection runner of packages/insomnia/src/ui/routes/runner.tsx:        *)
(* the execution registry (runnerExecutions), cancelExecution, the         *)
(* runCollectionAction double loop with its redirect resolution, and the   *)
(* parts of the Runner component that start and cancel a run.              *)
(*                                                                         *)
(* JavaScript strings are sequences of symbols (<<"A", " ">> is "A "), so  *)
(* that trim() and encodeURIComponent() are computed, not assumed.         *)
(* The renderer runs one piece of code at a time and a run gives up        *)
(* control only at an await, so an action is the code between two awaits   *)
(* and pc[r] names the await at which run r is suspended.                  *)
(***************************************************************************)
EXTENDS Integers, Sequences, FiniteSets, TLC

\* ------------------------------------------------------------------ bounds
MaxIterations == 2
MaxRequests == 3
MaxPairRequests == 2
MaxUploads == 2
MaxDataIterations == 3
MaxDataRequests == 2
MaxFormRequests == 2
MaxCancels == 2

\* ------------------------------------------------------------ input domains
Runs == {1, 2}
Workspaces == {"w1", "w2"}

\* Spec follows one invocation of runCollectionAction, for workspace w1.
SoloRuns == {1}
SoloWorkspaces == {"w1"}

EmptyString == << >>

RequestIdAt(k) == << "r" \o ToString(k) >>

RequestNames == { <<"A", " ">>, <<"r2">>, <<"r3">> }

RedirectTargets == { <<" ", "A">>, <<"r1">>, <<"r2">>, <<"r3">> }

\* The duration the executor reports (the collector is built with 1).
Durations == {2}

\* requests: { id: string; name: string }[] plus the url read at line 824;
\* ids are the distinct document ids of the selected list items.
RequestAt(k, nm) == [id |-> RequestIdAt(k), name |-> nm, url |-> k]

RequestLists ==
  UNION { { [k \in 1..m |-> RequestAt(k, f[k])] : f \in [1..m -> RequestNames] }
          : m \in 1..MaxRequests }

\* The lists the two invocations of PairSpec are given.
PairRequestLists ==
  { [k \in 1..m |-> RequestAt(k, <<"r3">>)] : m \in 1..MaxPairRequests }

\* userUploadEnvs: one entry per row of the uploaded file, all distinct.
UploadEnvAt(k) == << "env" \o ToString(k) >>

UploadListOf(n) == [k \in 1..n |-> UploadEnvAt(k - 1)]

NoUploadData == UploadListOf(0)

UploadLists == { UploadListOf(n) : n \in 0..MaxUploads }

\* The test results the executor leaves in the collector.
PassedOnly == << [status |-> "passed"] >>

TestResultLists ==
  { << >>, PassedOnly, << [status |-> "passed"], [status |-> "failed"] >> }

\* The lists DataSpec runs: short ones without redirects, so that the
\* iterations, the upload data and the test results are what varies.
DataRequestLists ==
  { [k \in 1..m |-> RequestAt(k, <<"r3">>)] : m \in 1..MaxDataRequests }

\* requestRows of the Runner component (lines 128-153): the requests of
\* the collection, the initial items of reqList.
FormRequestRows == [k \in 1..MaxFormRequests |-> RequestAt(k, <<"r3">>)]

\* What can be typed into the Iterations and Delay inputs: nothing, a
\* letter, zero, a negative number, a number, a number with a fraction.
InputTexts ==
  { << >>, << "a" >>, << "0" >>, << "-", "1" >>, << "2" >>,
    << "1", ".", "5" >> }

\* ------------------------------------------------------------------- state
VARIABLES
  runnerExecutions,   \* the Map<string, string>: a function on the present keys
  steps,              \* window.main timing steps per run id (step names)
  isRunning,          \* Runner component state, refreshed by the 1 s poll
  shouldRefresh,      \* Runner component state, set by the refresh-pane param
  executionResult,    \* Runner component state: the record shown, or NoResult
  store,              \* models.runnerTestResult: the records created
  cancelledRequests,  \* the ids passed to cancelRequestById, in call order
  pc,                 \* position of each invocation of runCollectionAction
  workspaceId,        \* params.workspaceId of the invocation
  requests,           \* requests of the submitted body
  iterations,         \* iterations of the submitted body
  userUploadEnvs,     \* userUploadEnvs of the submitted body
  i, j,               \* loop counters
  nextRequestIdOrName,
  iterationResults,   \* the local of line 779
  testCtx,
  resultCollector,
  thrown,             \* the value caught at line 875, NoError before
  returned,           \* the redirect the action returned, NoRedirect before
  dispatchLog,        \* history: the dispatches begun, [iter, idx] and the
                      \* userUploadEnv handed to sendActionImp
  redirectSignalled,  \* history: a dispatch of the run returned a target
  redirectedIterations, \* history: the iterations in which one did
  resolvedTarget,     \* history, while awaiting the request meta: the
                      \* pending target the marked request resolved
  createCalls,        \* history: calls of runnerTestResult.create by the run
  formIterations,     \* Runner component state iterations (line 125)
  formDelay,          \* Runner component state delay (line 126)
  uploadData,         \* Runner component state uploadData (line 100)
  reqListItems,       \* reqList.items, in the order shown
  selectedKeys,       \* reqList.selectedKeys
  delay               \* delay of the submitted body

vars ==
  << runnerExecutions, steps, isRunning, shouldRefresh, executionResult,
     store, cancelledRequests, pc, workspaceId, requests, iterations,
     userUploadEnvs, i, j, nextRequestIdOrName, iterationResults, testCtx,
     resultCollector, thrown, returned, dispatchLog, redirectSignalled,
     redirectedIterations, resolvedTarget, createCalls, formIterations,
     formDelay, uploadData, reqListItems, selectedKeys, delay >>

\* The inputs of the Runner component, and the delay its submission hands
\* to runCollectionAction.
formVars == << formIterations, formDelay, uploadData, reqListItems, selectedKeys >>

componentVars == << formVars, delay >>

\* What the handlers of the inputs leave alone besides sharedVars.
actionVars ==
  << pc, workspaceId, requests, iterations, userUploadEnvs, i, j,
     nextRequestIdOrName, iterationResults, testCtx, resultCollector, thrown,
     returned, dispatchLog, redirectSignalled, redirectedIterations,
     resolvedTarget, createCalls, delay >>

\* The state of the Runner component that only the poll and the history
\* pane write.
paneVars == << shouldRefresh, executionResult >>

sharedVars ==
  << runnerExecutions, steps, isRunning, paneVars, store, cancelledRequests >>

inputVars == << workspaceId, requests, iterations, userUploadEnvs >>

historyVars ==
  << dispatchLog, redirectSignalled, redirectedIterations, resolvedTarget,
     createCalls >>

NoError == [kind |-> "none"]
NoRedirect == [kind |-> "none"]
NoCollector == [requestId |-> EmptyString]

\* executionResult before any record is shown (null).
NoResult == [parentId |-> "none"]


\* ---------------------------------------------------------- string helpers
\* getExecution's result for a key that is not in the map; the symbol is
\* not part of any request id, name or redirect target.
Undefined == << "undefined" >>

\* JavaScript truthiness of a string-or-undefined value.
Truthy(s) == s # Undefined /\ s # EmptyString

RECURSIVE TrimStart(_)
TrimStart(s) == IF s # << >> /\ Head(s) = " " THEN TrimStart(Tail(s)) ELSE s

RECURSIVE TrimEnd(_)
TrimEnd(s) ==
  IF s # << >> /\ s[Len(s)] = " " THEN TrimEnd(SubSeq(s, 1, Len(s) - 1)) ELSE s

\* String.prototype.trim
Trim(s) == TrimEnd(TrimStart(s))

\* encodeURIComponent on the symbols the messages use.
EncodeURIComponent(s) ==
  [k \in DOMAIN s |-> CASE s[k] = " " -> "%20"
                        [] s[k] = ":" -> "%3A"
                        [] OTHER -> s[k]]

\* -------------------------------------------------------- execution registry
startExecution(m, w) ==
  [k \in DOMAIN m \cup {w} |-> IF k = w THEN EmptyString ELSE m[k]]

\* Mutant: runnerExecutions.clear() in place of delete(workspaceId).
stopExecutionClearing(m, w) == [k \in {} |-> m[k]]

stopExecution(m, w) == [k \in DOMAIN m \ {w} |-> m[k]]

updateExecution(m, w, requestId) ==
  [k \in DOMAIN m \cup {w} |-> IF k = w THEN requestId ELSE m[k]]

getExecution(m, w) == IF w \in DOMAIN m THEN m[w] ELSE Undefined

\* ------------------------------------------- step tracker (window.main.*)
mainStartExecution(s, w) == [s EXCEPT ![w] = << >>]

addExecutionStep(s, w, stepName) == [s EXCEPT ![w] = Append(@, stepName)]

updateLatestStepName(s, w, stepName) ==
  IF s[w] = << >> THEN s ELSE [s EXCEPT ![w] = [@ EXCEPT ![Len(@)] = stepName]]

\* completeExecutionStep stamps the duration of the latest step: the step
\* names, which are all the model keeps, stay as they are.
completeExecutionStep(s, w) == s

DoneStepName == << "Done" >>

InitializingStepName == << "Initializing" >>

\* The template string of line 812.
ExecutingStepName(it, idx, len, name) ==
  << "Iteration", " ", ToString(it + 1), " ", "-", " ", "Executing", " ",
     ToString(idx + 1), " ", "of", " ", ToString(len), " ", "requests", " ",
     "-", " ", "\"" >> \o name \o << "\"" >>

\* ------------------------------------------------------------ cancelExecution
\* Lines 725-734, as the change it makes to the registry, the step tracker
\* and the request cancellations.
RegistryAfterCancel(m, w) ==
  IF Truthy(getExecution(m, w)) THEN stopExecution(m, w) ELSE m

\* Mutant: the test of line 727 left out.
cancelExecutionUnguarded(w) ==
  LET activeRequest == getExecution(runnerExecutions, w) IN
  /\ runnerExecutions' = stopExecution(runnerExecutions, w)
  /\ cancelledRequests' = Append(cancelledRequests, activeRequest)
  /\ steps' = completeExecutionStep(
                updateLatestStepName(steps, w, DoneStepName), w)

cancelExecution(w) ==
  LET activeRequest == getExecution(runnerExecutions, w) IN
  /\ runnerExecutions' = RegistryAfterCancel(runnerExecutions, w)
  /\ IF Truthy(activeRequest)
       THEN /\ cancelledRequests' = Append(cancelledRequests, activeRequest)
            /\ steps' = completeExecutionStep(
                          updateLatestStepName(steps, w, DoneStepName), w)
       ELSE UNCHANGED << cancelledRequests, steps >>

\* ------------------------------------------------------- redirect resolution
\* requests.findLastIndex(req => req.name.trim() === target.trim()), 0-based,
\* -1 when there is none: the scan runs from the last index down.
RECURSIVE FindLastIndexFrom(_, _, _)
FindLastIndexFrom(reqs, target, k) ==
  IF k < 0 THEN -1
  ELSE IF Trim(reqs[k + 1].name) = Trim(target) THEN k
  ELSE FindLastIndexFrom(reqs, target, k - 1)

\* Mutant: the first request with the name, as findIndex would give.
RECURSIVE FindIndexFrom(_, _, _)
FindIndexFrom(reqs, target, k) ==
  IF k >= Len(reqs) THEN -1
  ELSE IF Trim(reqs[k + 1].name) = Trim(target) THEN k
  ELSE FindIndexFrom(reqs, target, k + 1)

findIndexMutant(reqs, target) == FindIndexFrom(reqs, target, 0)

findLastIndex(reqs, target) == FindLastIndexFrom(reqs, target, Len(reqs) - 1)

\* Mutant: the id comparison of line 789 left out.
RedirectMatchesNameOnly(reqs, idx, target) ==
  /\ Trim(reqs[idx + 1].name) = Trim(target)
  /\ idx = findLastIndex(reqs, target)

\* The condition of lines 789-791 for the request at 0-based index idx.
RedirectMatches(reqs, idx, target) ==
  \/ reqs[idx + 1].id = target
  \/ /\ Trim(reqs[idx + 1].name) = Trim(target)
     /\ idx = findLastIndex(reqs, target)

\* ------------------------------------------------------------ thrown values
StoppedError ==
  [kind |-> "string", error |-> Undefined,
   text |-> <<"Runner", " ", "has", " ", "been", " ", "stopped">>]

RequestMetaMissing ==
  [kind |-> "Error", error |-> Undefined,
   text |-> <<"Error", ":", " ", "Request", " ", "meta", " ", "not", " ",
              "found">>]

\* What sendActionImp may throw: an object with an error field, or an Error.
ExecutorFailures ==
  { [kind |-> "object", error |-> <<"socket", " ", "hang", " ", "up">>,
     text |-> <<"[object", " ", "Object]">>],
    [kind |-> "Error", error |-> Undefined,
     text |-> <<"Error", ":", " ", "timeout">>] }

\* e.error || e, as the string encodeURIComponent receives.
ErrorText(e) == IF Truthy(e.error) THEN e.error ELSE e.text

ErrorRedirect(w, e) ==
  [kind |-> "redirect", workspaceId |-> w, refreshPane |-> TRUE,
   error |-> EncodeURIComponent(ErrorText(e))]

SuccessRedirect(w) ==
  [kind |-> "redirect", workspaceId |-> w, refreshPane |-> TRUE,
   error |-> Undefined]

\* -------------------------------------------------------------------- Init
InitialTestCtx ==
  [iterations |-> 0, duration |-> 1, testCount |-> 0, avgRespTime |-> 0,
   iterationResults |-> << >>, done |-> FALSE, responsesInfo |-> << >>]

Init ==
  /\ runnerExecutions = [w \in {} |-> EmptyString]
  /\ steps = [w \in Workspaces |-> << >>]
  /\ isRunning = [w \in Workspaces |-> FALSE]
  /\ shouldRefresh = [w \in Workspaces |-> FALSE]
  /\ executionResult = [w \in Workspaces |-> NoResult]
  /\ store = << >>
  /\ cancelledRequests = << >>
  /\ pc = [r \in Runs |-> "idle"]
  /\ workspaceId = [r \in Runs |-> "w1"]
  /\ requests = [r \in Runs |-> << >>]
  /\ iterations = [r \in Runs |-> 0]
  /\ userUploadEnvs = [r \in Runs |-> << >>]
  /\ i = [r \in Runs |-> 0]
  /\ j = [r \in Runs |-> 0]
  /\ nextRequestIdOrName = [r \in Runs |-> EmptyString]
  /\ iterationResults = [r \in Runs |-> << >>]
  /\ testCtx = [r \in Runs |-> InitialTestCtx]
  /\ formIterations = 1
  /\ formDelay = 0
  /\ uploadData = NoUploadData
  /\ reqListItems = FormRequestRows
  /\ selectedKeys = {}
  /\ delay = [r \in Runs |-> 0]
  /\ resultCollector = [r \in Runs |-> NoCollector]
  /\ thrown = [r \in Runs |-> NoError]
  /\ returned = [r \in Runs |-> NoRedirect]
  /\ dispatchLog = [r \in Runs |-> << >>]
  /\ redirectSignalled = [r \in Runs |-> FALSE]
  /\ redirectedIterations = [r \in Runs |-> {}]
  /\ resolvedTarget = [r \in Runs |-> EmptyString]
  /\ createCalls = [r \in Runs |-> 0]

\* ------------------------------------------------------ runCollectionAction
CurrentRequest(r) == requests[r][j[r] + 1]

\* The Run button (line 425) is enabled: a request is selected and the
\* component does not believe a run is in progress.
RunEnabled(w, reqs) == Len(reqs) > 0 /\ ~isRunning[w]

\* Mutant: the check of lines 784-786 left out.
RECURSIVE LoopFromUnchecked(_, _, _, _)
LoopFromUnchecked(reqs, n, alive, st) ==
  IF st.j < Len(reqs)
    THEN IF st.nextRequestIdOrName # EmptyString
              /\ ~RedirectMatches(reqs, st.j, st.nextRequestIdOrName)
           THEN LoopFromUnchecked(reqs, n, alive, [st EXCEPT !.j = @ + 1])
           ELSE [st EXCEPT !.nextRequestIdOrName = EmptyString, !.at = "mark"]
    ELSE LET ended == [st EXCEPT
                         !.testCtx.iterationResults =
                            Append(@, st.iterationResults),
                         !.i = @ + 1]
         IN  IF ended.i < n
               THEN LoopFromUnchecked(reqs, n, alive,
                      [ended EXCEPT !.nextRequestIdOrName = EmptyString,
                                    !.iterationResults = << >>,
                                    !.j = 0])
               ELSE [ended EXCEPT !.at = "done"]

\* Mutant: the check of lines 784-786 made also when the inner loop is
\* left, so that a removed entry stops the run after its last request too.
RECURSIVE LoopFromCheckingAtEnd(_, _, _, _)
LoopFromCheckingAtEnd(reqs, n, alive, st) ==
  IF ~alive
    THEN [st EXCEPT !.at = "throw"]
    ELSE IF st.j < Len(reqs)
           THEN IF st.nextRequestIdOrName # EmptyString
                     /\ ~RedirectMatches(reqs, st.j, st.nextRequestIdOrName)
                  THEN LoopFromCheckingAtEnd(reqs, n, alive,
                                             [st EXCEPT !.j = @ + 1])
                  ELSE [st EXCEPT !.nextRequestIdOrName = EmptyString,
                                  !.at = "mark"]
           ELSE LET ended == [st EXCEPT
                                !.testCtx.iterationResults =
                                   Append(@, st.iterationResults),
                                !.i = @ + 1]
                IN  IF ended.i < n
                      THEN LoopFromCheckingAtEnd(reqs, n, alive,
                             [ended EXCEPT !.nextRequestIdOrName = EmptyString,
                                           !.iterationResults = << >>,
                                           !.j = 0])
                      ELSE [ended EXCEPT !.at = "done"]

\* Mutant: nextRequestIdOrName declared outside the outer loop, so that a
\* pending target survives the end of an iteration.
RECURSIVE LoopFromKeepingTarget(_, _, _, _)
LoopFromKeepingTarget(reqs, n, alive, st) ==
  IF st.j < Len(reqs)
    THEN IF ~alive
           THEN [st EXCEPT !.at = "throw"]
           ELSE IF st.nextRequestIdOrName # EmptyString
                     /\ ~RedirectMatches(reqs, st.j, st.nextRequestIdOrName)
                  THEN LoopFromKeepingTarget(reqs, n, alive,
                                             [st EXCEPT !.j = @ + 1])
                  ELSE [st EXCEPT !.nextRequestIdOrName = EmptyString,
                                  !.at = "mark"]
    ELSE LET ended == [st EXCEPT
                         !.testCtx.iterationResults =
                            Append(@, st.iterationResults),
                         !.i = @ + 1]
         IN  IF ended.i < n
               THEN LoopFromKeepingTarget(reqs, n, alive,
                      [ended EXCEPT !.iterationResults = << >>, !.j = 0])
               ELSE [ended EXCEPT !.at = "done"]

\* Mutant: the check of lines 784-786 moved in front of the inner loop, so
\* that it is made for the first request of an iteration only.
RECURSIVE LoopFromCheckingOnce(_, _, _, _)
LoopFromCheckingOnce(reqs, n, alive, st) ==
  IF st.j < Len(reqs)
    THEN IF ~alive /\ st.j = 0
           THEN [st EXCEPT !.at = "throw"]
           ELSE IF st.nextRequestIdOrName # EmptyString
                     /\ ~RedirectMatches(reqs, st.j, st.nextRequestIdOrName)
                  THEN LoopFromCheckingOnce(reqs, n, alive,
                                            [st EXCEPT !.j = @ + 1])
                  ELSE [st EXCEPT !.nextRequestIdOrName = EmptyString,
                                  !.at = "mark"]
    ELSE LET ended == [st EXCEPT
                         !.testCtx.iterationResults =
                            Append(@, st.iterationResults),
                         !.i = @ + 1]
         IN  IF ended.i < n
               THEN LoopFromCheckingOnce(reqs, n, alive,
                      [ended EXCEPT !.nextRequestIdOrName = EmptyString,
                                    !.iterationResults = << >>,
                                    !.j = 0])
               ELSE [ended EXCEPT !.at = "done"]

\* Mutant: line 869 as iterationResults: [iterationResults], the earlier
\* iterations dropped.
RECURSIVE LoopFromOverwriting(_, _, _, _)
LoopFromOverwriting(reqs, n, alive, st) ==
  IF st.j < Len(reqs)
    THEN IF ~alive
           THEN [st EXCEPT !.at = "throw"]
           ELSE IF st.nextRequestIdOrName # EmptyString
                     /\ ~RedirectMatches(reqs, st.j, st.nextRequestIdOrName)
                  THEN LoopFromOverwriting(reqs, n, alive,
                                           [st EXCEPT !.j = @ + 1])
                  ELSE [st EXCEPT !.nextRequestIdOrName = EmptyString,
                                  !.at = "mark"]
    ELSE LET ended == [st EXCEPT
                         !.testCtx.iterationResults = << st.iterationResults >>,
                         !.i = @ + 1]
         IN  IF ended.i < n
               THEN LoopFromOverwriting(reqs, n, alive,
                      [ended EXCEPT !.nextRequestIdOrName = EmptyString,
                                    !.iterationResults = << >>,
                                    !.j = 0])
               ELSE [ended EXCEPT !.at = "done"]

\* The synchronous part of the double loop, from the test of the inner for
\* statement (line 781) to the first of: the request to mark at line 799
\* (at = "mark"), the throw of line 785 (at = "throw"), the end of the outer
\* loop (at = "done").  alive is the outcome of the check of line 784, which
\* no code can change before the next await.  st carries i, j,
\* nextRequestIdOrName, the local iterationResults and testCtx.
RECURSIVE LoopFrom(_, _, _, _)
LoopFrom(reqs, n, alive, st) ==
  IF st.j < Len(reqs)
    THEN IF ~alive
           THEN [st EXCEPT !.at = "throw"]
           ELSE IF st.nextRequestIdOrName # EmptyString
                     /\ ~RedirectMatches(reqs, st.j, st.nextRequestIdOrName)
                  THEN LoopFrom(reqs, n, alive, [st EXCEPT !.j = @ + 1])
                  ELSE [st EXCEPT !.nextRequestIdOrName = EmptyString,
                                  !.at = "mark"]
    ELSE LET ended == [st EXCEPT
                         !.testCtx.iterationResults =
                            Append(@, st.iterationResults),
                         !.i = @ + 1]
         IN  IF ended.i < n
               THEN LoopFrom(reqs, n, alive,
                             [ended EXCEPT !.nextRequestIdOrName = EmptyString,
                                           !.iterationResults = << >>,
                                           !.j = 0])
               ELSE [ended EXCEPT !.at = "done"]

LoopState(it, idx, next, results, ctx) ==
  [at |-> "loop", i |-> it, j |-> idx, nextRequestIdOrName |-> next,
   iterationResults |-> results, testCtx |-> ctx]

\* Lines 799-817 for the request the loop stopped at: the registry and
\* step-name updates, then the awaited call of updateOrCreateByParentId.
MarkExecutions(m, w, reqs, st) == updateExecution(m, w, reqs[st.j + 1].id)

MarkSteps(s, w, reqs, st) ==
  updateLatestStepName(s, w,
    ExecutingStepName(st.i, st.j, Len(reqs), reqs[st.j + 1].name))

\* onRun submits the body; lines 745-766 and the loop up to its first await.
RunStart(r, w, reqs, n, envs) ==
  LET ctx == [InitialTestCtx EXCEPT !.iterations = n]
      st == LoopFrom(reqs, n, TRUE,
                     LoopState(0, 0, EmptyString, << >>, ctx))
  IN
  /\ pc[r] = "idle"
  /\ RunEnabled(w, reqs)
  /\ n >= 1
  /\ workspaceId' = [workspaceId EXCEPT ![r] = w]
  /\ requests' = [requests EXCEPT ![r] = reqs]
  /\ iterations' = [iterations EXCEPT ![r] = n]
  /\ userUploadEnvs' = [userUploadEnvs EXCEPT ![r] = envs]
  /\ testCtx' = [testCtx EXCEPT ![r] = st.testCtx]
  /\ i' = [i EXCEPT ![r] = st.i]
  /\ j' = [j EXCEPT ![r] = st.j]
  /\ nextRequestIdOrName' = [nextRequestIdOrName EXCEPT ![r] = st.nextRequestIdOrName]
  /\ iterationResults' = [iterationResults EXCEPT ![r] = st.iterationResults]
  /\ runnerExecutions' =
       MarkExecutions(startExecution(runnerExecutions, w), w, reqs, st)
  /\ steps' = MarkSteps(addExecutionStep(mainStartExecution(steps, w), w,
                                         InitializingStepName),
                        w, reqs, st)
  /\ pc' = [pc EXCEPT ![r] = "awaitMeta"]
  /\ UNCHANGED << isRunning, paneVars, store, cancelledRequests, resultCollector,
                  thrown, returned, historyVars >>

\* Mutant: the create call placed after the try statement instead of in
\* finally, so that the return of line 879 skips it.
CatchWithoutFinally(r, e) ==
  /\ thrown' = [thrown EXCEPT ![r] = e]
  /\ cancelExecution(workspaceId[r])
  /\ pc' = [pc EXCEPT ![r] = "awaitCreate"]
  /\ UNCHANGED createCalls

\* Mutant: line 877 left out.
CatchWithoutCancel(r, e) ==
  /\ thrown' = [thrown EXCEPT ![r] = e]
  /\ createCalls' = [createCalls EXCEPT ![r] = @ + 1]
  /\ pc' = [pc EXCEPT ![r] = "awaitCreate"]
  /\ UNCHANGED << cancelledRequests, steps, runnerExecutions >>

\* Lines 875-881 for the thrown value e: cancelExecution, then the finally
\* block calls runnerTestResult.create and awaits it.
CatchAndFinally(r, e) ==
  /\ thrown' = [thrown EXCEPT ![r] = e]
  /\ cancelExecution(workspaceId[r])
  /\ createCalls' = [createCalls EXCEPT ![r] = @ + 1]
  /\ pc' = [pc EXCEPT ![r] = "awaitCreate"]

\* Mutant: lines 873-874 left out.
FinallyWithoutDone(r) ==
  /\ createCalls' = [createCalls EXCEPT ![r] = @ + 1]
  /\ pc' = [pc EXCEPT ![r] = "awaitCreate"]
  /\ UNCHANGED << steps, runnerExecutions, cancelledRequests, thrown >>

\* Lines 873-874, then the finally block as above.
DoneAndFinally(r) ==
  /\ steps' = completeExecutionStep(
                updateLatestStepName(steps, workspaceId[r], DoneStepName),
                workspaceId[r])
  /\ createCalls' = [createCalls EXCEPT ![r] = @ + 1]
  /\ pc' = [pc EXCEPT ![r] = "awaitCreate"]
  /\ UNCHANGED << runnerExecutions, cancelledRequests, thrown >>

\* Mutant: line 820 left out, the request handed to sendActionImp as soon
\* as the request meta has arrived.
MetaReturnWithoutDelay(r, found) ==
  /\ pc[r] = "awaitMeta"
  /\ IF found
       THEN /\ pc' = [pc EXCEPT ![r] = "awaitSend"]
            /\ dispatchLog' = [dispatchLog EXCEPT ![r] =
                 Append(@, [iter |-> i[r], idx |-> j[r],
                            iteration |-> i[r] + 1,
                            iterationCount |-> iterations[r],
                            userUploadEnv |-> Undefined])]
            /\ UNCHANGED << runnerExecutions, steps, cancelledRequests,
                            thrown, createCalls >>
       ELSE /\ CatchAndFinally(r, RequestMetaMissing)
            /\ UNCHANGED dispatchLog
  /\ resolvedTarget' = [resolvedTarget EXCEPT ![r] = EmptyString]
  /\ UNCHANGED << isRunning, paneVars, store, inputVars, componentVars, i, j,
                  nextRequestIdOrName, iterationResults, testCtx,
                  resultCollector, returned, redirectSignalled,
                  redirectedIterations >>

\* Lines 814-820: the request meta arrives, or the invariant of line 818
\* throws; on success the delay timer is started and awaited.
MetaReturn(r, found) ==
  /\ pc[r] = "awaitMeta"
  /\ IF found
       THEN /\ pc' = [pc EXCEPT ![r] = "awaitSleep"]
            /\ UNCHANGED << runnerExecutions, steps, cancelledRequests,
                            thrown, createCalls >>
       ELSE CatchAndFinally(r, RequestMetaMissing)
  /\ resolvedTarget' = [resolvedTarget EXCEPT ![r] = EmptyString]
  /\ UNCHANGED << isRunning, paneVars, store, inputVars, componentVars, i, j, nextRequestIdOrName,
                  iterationResults, testCtx, resultCollector, returned,
                  dispatchLog, redirectSignalled, redirectedIterations >>

\* Mutant: the wrap computed as curIteration % uploadDataLength.
getCurIterationByModulo(envs, curIteration) ==
  IF Len(envs) > 0
    THEN envs[(curIteration % Len(envs)) + 1]
    ELSE Undefined

\* Lines 801-810, for the userUploadEnvs of the body.
getCurIterationUserUploadData(envs, curIteration) ==
  IF Len(envs) > 0
    THEN IF Len(envs) >= curIteration + 1
           THEN envs[curIteration + 1]
           ELSE envs[((curIteration + 1) % Len(envs)) + 1]
    ELSE Undefined

NewCollector(req) ==
  [requestId |-> req.id, requestName |-> req.name, requestUrl |-> req.url,
   responseReason |-> EmptyString, duration |-> 1, size |-> 0,
   results |-> << >>, responseId |-> EmptyString]

\* Mutant: the loop counter passed as the iteration number.
SendArgumentsZeroBased(r) ==
  [iter |-> i[r], idx |-> j[r],
   iteration |-> i[r],
   iterationCount |-> iterations[r],
   userUploadEnv |-> getCurIterationUserUploadData(userUploadEnvs[r], i[r])]

\* What sendActionImp is called with at lines 831-840: iteration,
\* iterationCount and userUploadEnv, kept in dispatchLog together with the
\* loop counters i and j of the call.
SendArguments(r) ==
  [iter |-> i[r], idx |-> j[r],
   iteration |-> i[r] + 1,
   iterationCount |-> iterations[r],
   userUploadEnv |-> getCurIterationUserUploadData(userUploadEnvs[r], i[r])]

\* Lines 820-840: the timer fires, the collector is built and the request
\* is handed to sendActionImp, whose result is awaited.
SleepReturn(r) ==
  /\ pc[r] = "awaitSleep"
  /\ resultCollector' = [resultCollector EXCEPT ![r] = NewCollector(CurrentRequest(r))]
  /\ dispatchLog' = [dispatchLog EXCEPT ![r] = Append(@, SendArguments(r))]
  /\ pc' = [pc EXCEPT ![r] = "awaitSend"]
  /\ UNCHANGED << sharedVars, inputVars, componentVars, i, j, nextRequestIdOrName,
                  iterationResults, testCtx, thrown, returned,
                  redirectSignalled, redirectedIterations, resolvedTarget,
                  createCalls >>

\* What the executor writes into the collector it was given.
FilledCollector(c, ordinal, duration, results) ==
  [c EXCEPT !.duration = duration,
            !.results = results,
            !.responseId = << "res" \o ToString(ordinal) >>]

RequestResultOf(req, c) ==
  [requestName |-> req.name, requestUrl |-> req.url, responseCode |-> 0,
   results |-> c.results]

\* Mutant: the request name stored where line 860 stores the id.
ResponseInfoByName(req, c) ==
  [responseId |-> c.responseId, originalRequestId |-> req.name,
   originalRequestName |-> req.name]

ResponseInfoOf(req, c) ==
  [responseId |-> c.responseId, originalRequestId |-> req.id,
   originalRequestName |-> req.name]

\* Mutant: the new result put in front of the iteration's results.
AfterSendPrepending(r, target, c) ==
  [at |-> "loop", i |-> i[r], j |-> j[r] + 1,
   nextRequestIdOrName |->
     IF Truthy(target) THEN target ELSE nextRequestIdOrName[r],
   iterationResults |->
     << RequestResultOf(CurrentRequest(r), c) >> \o iterationResults[r],
   testCtx |->
     [testCtx[r] EXCEPT
        !.duration = @ + c.duration,
        !.responsesInfo = Append(@, ResponseInfoOf(CurrentRequest(r), c))]]

\* Mutant: a target that is the id of a request taken as an index to jump
\* to, instead of a string the following requests are tested against.
AfterSendJumping(r, target, c) ==
  LET ids == { q \in 0..(Len(requests[r]) - 1) : requests[r][q + 1].id = target }
  IN
  [at |-> "loop", i |-> i[r],
   j |-> IF ids # {} THEN CHOOSE q \in ids : TRUE ELSE j[r] + 1,
   nextRequestIdOrName |->
     IF Truthy(target) /\ ids = {} THEN target ELSE nextRequestIdOrName[r],
   iterationResults |->
     Append(iterationResults[r], RequestResultOf(CurrentRequest(r), c)),
   testCtx |->
     [testCtx[r] EXCEPT
        !.duration = @ + c.duration,
        !.responsesInfo = Append(@, ResponseInfoOf(CurrentRequest(r), c))]]

\* Mutant: the j++ of line 781 left out, the same request taken again.
AfterSendRepeating(r, target, c) ==
  [at |-> "loop", i |-> i[r], j |-> j[r],
   nextRequestIdOrName |->
     IF Truthy(target) THEN target ELSE nextRequestIdOrName[r],
   iterationResults |->
     Append(iterationResults[r], RequestResultOf(CurrentRequest(r), c)),
   testCtx |->
     [testCtx[r] EXCEPT
        !.duration = @ + c.duration,
        !.responsesInfo = Append(@, ResponseInfoOf(CurrentRequest(r), c))]]

\* Mutant: line 852 as iterationResults = [requestResults], the earlier
\* results of the iteration dropped.
AfterSendReplacing(r, target, c) ==
  [at |-> "loop", i |-> i[r], j |-> j[r] + 1,
   nextRequestIdOrName |->
     IF Truthy(target) THEN target ELSE nextRequestIdOrName[r],
   iterationResults |-> << RequestResultOf(CurrentRequest(r), c) >>,
   testCtx |->
     [testCtx[r] EXCEPT
        !.duration = @ + c.duration,
        !.responsesInfo = Append(@, ResponseInfoOf(CurrentRequest(r), c))]]

\* Mutant: lines 856-863 left out, responsesInfo not extended.
AfterSendWithoutResponseInfo(r, target, c) ==
  [at |-> "loop", i |-> i[r], j |-> j[r] + 1,
   nextRequestIdOrName |->
     IF Truthy(target) THEN target ELSE nextRequestIdOrName[r],
   iterationResults |->
     Append(iterationResults[r], RequestResultOf(CurrentRequest(r), c)),
   testCtx |-> [testCtx[r] EXCEPT !.duration = @ + c.duration]]

\* Lines 841-864 for the returned redirect target and the filled collector:
\* the loop state at the j++ that follows.
AfterSend(r, target, c) ==
  LoopState(i[r], j[r] + 1,
            IF Truthy(target) THEN target ELSE nextRequestIdOrName[r],
            Append(iterationResults[r], RequestResultOf(CurrentRequest(r), c)),
            [testCtx[r] EXCEPT
               !.duration = @ + c.duration,
               !.responsesInfo = Append(@, ResponseInfoOf(CurrentRequest(r), c))])

\* Lines 831-870: sendActionImp returns; target is what the returned
\* context carries as execution.nextRequestIdOrName (EmptyString when the
\* context is null or carries none).  The results are appended and the loop
\* runs on to its next await.
SendReturn(r, target, duration, results) ==
  LET c == FilledCollector(resultCollector[r],
                           Len(testCtx[r].responsesInfo) + 1, duration,
                           results)
      alive == getExecution(runnerExecutions, workspaceId[r]) # Undefined
      st == LoopFrom(requests[r], iterations[r], alive, AfterSend(r, target, c))
  IN
  /\ pc[r] = "awaitSend"
  /\ resultCollector' = [resultCollector EXCEPT ![r] = NoCollector]
  /\ testCtx' = [testCtx EXCEPT ![r] = st.testCtx]
  /\ i' = [i EXCEPT ![r] = st.i]
  /\ j' = [j EXCEPT ![r] = st.j]
  /\ nextRequestIdOrName' = [nextRequestIdOrName EXCEPT ![r] = st.nextRequestIdOrName]
  /\ iterationResults' = [iterationResults EXCEPT ![r] = st.iterationResults]
  /\ CASE st.at = "mark" ->
            /\ runnerExecutions' =
                 MarkExecutions(runnerExecutions, workspaceId[r], requests[r], st)
            /\ steps' = MarkSteps(steps, workspaceId[r], requests[r], st)
            /\ pc' = [pc EXCEPT ![r] = "awaitMeta"]
            /\ UNCHANGED << cancelledRequests, thrown, createCalls >>
       [] st.at = "throw" -> CatchAndFinally(r, StoppedError)
       [] st.at = "done" -> DoneAndFinally(r)
  /\ redirectSignalled' =
       [redirectSignalled EXCEPT ![r] = @ \/ Truthy(target)]
  /\ redirectedIterations' =
       [redirectedIterations EXCEPT ![r] =
          IF Truthy(target) THEN @ \cup {i[r]} ELSE @]
  /\ resolvedTarget' =
       [resolvedTarget EXCEPT ![r] =
          IF st.at = "mark"
            THEN AfterSend(r, target, c).nextRequestIdOrName
            ELSE EmptyString]
  /\ UNCHANGED << isRunning, paneVars, store, inputVars, componentVars, returned, dispatchLog >>

\* sendActionImp throws.
SendThrow(r, e) ==
  /\ pc[r] = "awaitSend"
  /\ CatchAndFinally(r, e)
  /\ UNCHANGED << isRunning, paneVars, store, inputVars, componentVars, i, j, nextRequestIdOrName,
                  iterationResults, testCtx, resultCollector, returned,
                  dispatchLog, redirectSignalled, redirectedIterations,
                  resolvedTarget >>

\* The record of lines 881-890.
RecordOf(w, ctx) ==
  [parentId |-> w, source |-> "runner", iterations |-> ctx.iterations,
   duration |-> ctx.duration, avgRespTime |-> ctx.avgRespTime,
   iterationResults |-> ctx.iterationResults,
   responsesInfo |-> ctx.responsesInfo]

\* The create resolves: the record is in the store and the action returns
\* the redirect of line 879 (after a catch) or of line 895.  Both carry
\* refresh-pane, which the component turns into shouldRefresh (lines 68-73).
CreateReturn(r) ==
  /\ pc[r] = "awaitCreate"
  /\ store' = Append(store, RecordOf(workspaceId[r], testCtx[r]))
  /\ shouldRefresh' = [shouldRefresh EXCEPT ![workspaceId[r]] = TRUE]
  /\ returned' = [returned EXCEPT ![r] =
        IF thrown[r] = NoError THEN SuccessRedirect(workspaceId[r])
        ELSE ErrorRedirect(workspaceId[r], thrown[r])]
  /\ pc' = [pc EXCEPT ![r] = "returned"]
  /\ UNCHANGED << runnerExecutions, steps, isRunning, executionResult,
                  cancelledRequests, inputVars, componentVars, i, j, nextRequestIdOrName,
                  iterationResults, testCtx, resultCollector, thrown,
                  historyVars >>

\* The create rejects: nothing catches it and the action rejects.
CreateThrow(r) ==
  /\ pc[r] = "awaitCreate"
  /\ pc' = [pc EXCEPT ![r] = "rejected"]
  /\ UNCHANGED << sharedVars, inputVars, componentVars, i, j, nextRequestIdOrName,
                  iterationResults, testCtx, resultCollector, thrown,
                  returned, historyVars >>

\* ------------------------------------------------------- Runner component
\* The Cancel control of the response timer (line 658), shown while
\* isRunning.
CancelClick(w) ==
  /\ isRunning[w]
  /\ cancelExecution(w)
  /\ UNCHANGED << isRunning, paneVars, store, pc, inputVars, componentVars, i, j, nextRequestIdOrName,
                  iterationResults, testCtx, resultCollector, thrown,
                  returned, historyVars >>

\* The latest record of the history read at line 310 (results.reverse()[0]).
LatestResult(w) ==
  LET recs == SelectSeq(store, LAMBDA rec : rec.parentId = w)
  IN  IF recs = << >> THEN NoResult ELSE recs[Len(recs)]

\* The 1 s poll of lines 291-323: nothing while the tracker knows no steps
\* for the id; otherwise isRunning follows the latest step name and, when
\* the run is over and a refresh is due, the latest record is shown.
RefreshPanes(w) ==
  LET running == steps[w][Len(steps[w])] # DoneStepName IN
  /\ steps[w] # << >>
  /\ isRunning' = [isRunning EXCEPT ![w] = running]
  /\ IF ~running /\ shouldRefresh[w]
       THEN /\ executionResult' =
                 [executionResult EXCEPT ![w] =
                    IF LatestResult(w) # NoResult THEN LatestResult(w) ELSE @]
            /\ shouldRefresh' = [shouldRefresh EXCEPT ![w] = FALSE]
       ELSE UNCHANGED paneVars
  /\ UNCHANGED << runnerExecutions, steps, store, cancelledRequests, pc,
                  inputVars, componentVars, i, j, nextRequestIdOrName, iterationResults,
                  testCtx, resultCollector, thrown, returned, historyVars >>

\* Lines 325-342, innermost loop first: the test cases of one request
\* result, of one iteration, of the record.
NoTestCases == [passed |-> 0, total |-> 0]

\* Mutant: totalTestCount++ moved inside the if of line 334.
RECURSIVE CountTestCasesPassedOnly(_)
CountTestCasesPassedOnly(results) ==
  IF results = << >> THEN NoTestCases
  ELSE LET rest == CountTestCasesPassedOnly(Tail(results))
           hit == IF Head(results).status = "passed" THEN 1 ELSE 0
       IN  [passed |-> rest.passed + hit, total |-> rest.total + hit]

RECURSIVE CountTestCases(_)
CountTestCases(results) ==
  IF results = << >> THEN NoTestCases
  ELSE LET rest == CountTestCases(Tail(results))
       IN  [passed |-> rest.passed
                         + (IF Head(results).status = "passed" THEN 1 ELSE 0),
            total |-> rest.total + 1]

RECURSIVE CountRequests(_)
CountRequests(requestResults) ==
  IF requestResults = << >> THEN NoTestCases
  ELSE LET here == CountTestCases(Head(requestResults).results)
           rest == CountRequests(Tail(requestResults))
       IN  [passed |-> here.passed + rest.passed,
            total |-> here.total + rest.total]

RECURSIVE CountIterations(_)
CountIterations(iterResults) ==
  IF iterResults = << >> THEN NoTestCases
  ELSE LET here == CountRequests(Head(iterResults))
           rest == CountIterations(Tail(iterResults))
       IN  [passed |-> here.passed + rest.passed,
            total |-> here.total + rest.total]

\* passedTestCount and totalTestCount as the component renders them.
TestCounts(running, result) ==
  IF ~running /\ result # NoResult
    THEN CountIterations(result.iterationResults)
    ELSE NoTestCases

\* A row of the history pane is clicked (lines 274-279): the record is
\* read by id and shown.
gotoExecutionResult(w, k) ==
  /\ k \in 1..Len(store)
  /\ store[k].parentId = w
  /\ executionResult' = [executionResult EXCEPT ![w] = store[k]]
  /\ UNCHANGED << runnerExecutions, steps, isRunning, shouldRefresh, store,
                  cancelledRequests, pc, inputVars, componentVars, i, j, nextRequestIdOrName,
                  iterationResults, testCtx, resultCollector, thrown,
                  returned, historyVars >>

\* ------------------------------------------------------------ specification
\* ------------------------------------------- Runner component: the inputs
\* parseInt(text, 10): leading blanks are skipped, a sign is read, then the
\* decimal digits up to the first other character; NaN when there is no
\* digit.  The result is [nan, value], value being read only when ~nan.
DecimalDigits == << "0", "1", "2", "3", "4", "5", "6", "7", "8", "9" >>

IsDigit(c) == \E k \in 1..10 : DecimalDigits[k] = c

DigitValue(c) == (CHOOSE k \in 1..10 : DecimalDigits[k] = c) - 1

RECURSIVE ReadDigits(_, _)
ReadDigits(s, acc) ==
  IF s # << >> /\ IsDigit(Head(s))
    THEN ReadDigits(Tail(s), 10 * acc + DigitValue(Head(s)))
    ELSE acc

parseInt(text) ==
  LET t == TrimStart(text)
      signed == t # << >> /\ Head(t) \in {"-", "+"}
      body == IF signed THEN Tail(t) ELSE t
      magnitude == ReadDigits(body, 0)
  IN  IF body = << >> \/ ~IsDigit(Head(body))
        THEN [nan |-> TRUE, value |-> 0]
        ELSE [nan |-> FALSE,
              value |-> IF signed /\ Head(t) = "-" THEN 0 - magnitude
                        ELSE magnitude]

\* Mutant: the test of line 380 as iterCount >= 0.
IterationsAfterChangeFromZero(current, text) ==
  LET iterCount == parseInt(text)
  IN  IF ~iterCount.nan /\ iterCount.value >= 0
        THEN iterCount.value
        ELSE current

\* Lines 377-386: the iterations state after the Iterations input changed
\* to text (a comparison with NaN is false).
IterationsAfterChange(current, text) ==
  LET iterCount == parseInt(text)
  IN  IF ~iterCount.nan /\ iterCount.value > 0
        THEN iterCount.value
        ELSE current

\* Lines 397-406, for the Delay input.
DelayAfterChange(current, text) ==
  LET parsed == parseInt(text)
  IN  IF ~parsed.nan /\ parsed.value >= 0
        THEN parsed.value
        ELSE current

\* The inputs are disabled while isRunning (lines 376 and 395).
IterationsChange(w, text) ==
  /\ ~isRunning[w]
  /\ formIterations' = IterationsAfterChange(formIterations, text)
  /\ UNCHANGED << sharedVars, actionVars, formDelay, uploadData, reqListItems,
                  selectedKeys >>

DelayChange(w, text) ==
  /\ ~isRunning[w]
  /\ formDelay' = DelayAfterChange(formDelay, text)
  /\ UNCHANGED << sharedVars, actionVars, formIterations, uploadData,
                  reqListItems, selectedKeys >>

\* onUploadFile of the upload modal (lines 587-590) and the effect it
\* triggers (lines 258-263).  uploadData is kept as the environments its
\* rows are converted to at lines 207-218, one per row and in row order.
onUploadFile(rows) ==
  /\ uploadData' = rows
  /\ formIterations' = IF Len(rows) >= 1 THEN Len(rows) ELSE formIterations
  /\ UNCHANGED << sharedVars, actionVars, formDelay, reqListItems, selectedKeys >>

AllKeys == { reqListItems[k].id : k \in 1..Len(reqListItems) }

\* onSelectionChange of the list (line 468); every key is disabled while
\* isRunning (lines 356-358 and 473).
onSelectionChange(w, keys) ==
  /\ ~isRunning[w]
  /\ selectedKeys' = keys
  /\ UNCHANGED << sharedVars, actionVars, formIterations, formDelay, uploadData,
                  reqListItems >>

\* Lines 239-247.
onToggleSelection ==
  /\ selectedKeys' =
       IF Cardinality(selectedKeys) = Len(reqListItems) THEN {} ELSE AllKeys
  /\ UNCHANGED << sharedVars, actionVars, formIterations, formDelay, uploadData,
                  reqListItems >>

\* reqList.moveBefore(target, {key}) and reqList.moveAfter(target, {key})
\* of onReorder (lines 169-175): the item with the key is taken out and put
\* back next to the target.
IndexOfKey(items, key) == CHOOSE k \in 1..Len(items) : items[k].id = key

WithoutKey(items, key) == SelectSeq(items, LAMBDA item : item.id # key)

InsertAt(items, k, item) ==
  SubSeq(items, 1, k - 1) \o << item >> \o SubSeq(items, k, Len(items))

MoveNextTo(items, target, key, before) ==
  LET item == items[IndexOfKey(items, key)]
      rest == WithoutKey(items, key)
      at == IndexOfKey(rest, target)
  IN  InsertAt(rest, IF before THEN at ELSE at + 1, item)

onReorder(target, key, before) ==
  /\ target # key
  /\ reqListItems' = MoveNextTo(reqListItems, target, key, before)
  /\ UNCHANGED << sharedVars, actionVars, formIterations, formDelay, uploadData,
                  selectedKeys >>

\* Lines 203-205: the items of the list whose key is selected, in the
\* order of the list.
SelectedRequests(items, selected) ==
  SelectSeq(items, LAMBDA item : item.id \in selected)

\* onRun (lines 202-233), enabled as the Run button is (line 425), and the
\* start of the action its submission invokes.
onRun(r, w) ==
  /\ selectedKeys # {}
  /\ ~isRunning[w]
  /\ RunStart(r, w, SelectedRequests(reqListItems, selectedKeys),
              formIterations, uploadData)
  /\ delay' = [delay EXCEPT ![r] = formDelay]
  /\ UNCHANGED formVars

RunStep(r) ==
  \/ \E found \in BOOLEAN : MetaReturn(r, found)
  \/ SleepReturn(r)
  \/ \E target \in {EmptyString} \cup RedirectTargets, d \in Durations :
       SendReturn(r, target, d, PassedOnly)
  \/ \E e \in ExecutorFailures : SendThrow(r, e)
  \/ CreateReturn(r)
  \/ CreateThrow(r)

Next ==
  \/ \E r \in SoloRuns, w \in SoloWorkspaces, reqs \in RequestLists,
        n \in 1..MaxIterations :
       RunStart(r, w, reqs, n, NoUploadData) /\ UNCHANGED componentVars
  \/ \E r \in SoloRuns : RunStep(r)
  \/ \E w \in Workspaces : CancelClick(w)
  \/ \E w \in Workspaces : RefreshPanes(w)
  \/ \E w \in Workspaces, k \in 1..Len(store) : gotoExecutionResult(w, k)

Spec == Init /\ [][Next]_vars

\* Every await of a started invocation is eventually settled: the request
\* meta, the delay timer, sendActionImp and the create each resolve or
\* reject, after which the invocation takes its next step.
FairSpec == Spec /\ \A r \in SoloRuns : WF_vars(RunStep(r))

\* The Runner component of workspace w1 with its inputs: edits of the two
\* number inputs, uploads, selection and reordering of the list, then one
\* submission and the run it starts.
FormStep(r) ==
  \/ MetaReturn(r, TRUE)
  \/ SleepReturn(r)
  \/ \E d \in Durations : SendReturn(r, EmptyString, d, PassedOnly)
  \/ CreateReturn(r)

FormNext ==
  \/ \E w \in SoloWorkspaces, text \in InputTexts : IterationsChange(w, text)
  \/ \E w \in SoloWorkspaces, text \in InputTexts : DelayChange(w, text)
  \/ \E rows \in UploadLists : onUploadFile(rows)
  \/ \E w \in SoloWorkspaces, keys \in SUBSET AllKeys : onSelectionChange(w, keys)
  \/ onToggleSelection
  \/ \E target \in AllKeys, key \in AllKeys, before \in BOOLEAN :
       onReorder(target, key, before)
  \/ \E r \in SoloRuns, w \in SoloWorkspaces : onRun(r, w)
  \/ \E r \in SoloRuns : FormStep(r)
  \/ \E w \in SoloWorkspaces : CancelClick(w)
  \/ \E w \in SoloWorkspaces : RefreshPanes(w)

FormSpec == Init /\ [][FormNext]_vars

\* Two invocations of runCollectionAction, each for either workspace: the
\* Run button is enabled until the poll has seen the first run's steps, and
\* again once a cancel has renamed the latest step, so that a second
\* invocation for the same workspace can start while the first is suspended.
PairStep(r) ==
  \/ \E found \in BOOLEAN : MetaReturn(r, found)
  \/ SleepReturn(r)
  \/ \E d \in Durations : SendReturn(r, EmptyString, d, PassedOnly)
  \/ \E e \in ExecutorFailures : SendThrow(r, e)
  \/ CreateReturn(r)
  \/ CreateThrow(r)

PairNext ==
  \/ \E r \in Runs, w \in Workspaces, reqs \in PairRequestLists :
       RunStart(r, w, reqs, 1, NoUploadData) /\ UNCHANGED componentVars
  \/ \E r \in Runs : PairStep(r)
  \/ \E w \in Workspaces : CancelClick(w)
  \/ \E w \in Workspaces : RefreshPanes(w)
  \/ \E w \in Workspaces, k \in 1..Len(store) : gotoExecutionResult(w, k)

PairSpec == Init /\ [][PairNext]_vars

\* One invocation over a short list, with the upload data, the
\* iteration count and the executor's test results varying.
DataStep(r) ==
  \/ \E found \in BOOLEAN : MetaReturn(r, found)
  \/ SleepReturn(r)
  \/ \E d \in Durations, results \in TestResultLists :
       SendReturn(r, EmptyString, d, results)
  \/ \E e \in ExecutorFailures : SendThrow(r, e)
  \/ CreateReturn(r)
  \/ CreateThrow(r)

DataNext ==
  \/ \E r \in SoloRuns, w \in SoloWorkspaces, reqs \in DataRequestLists,
        n \in 1..MaxDataIterations, envs \in UploadLists :
       RunStart(r, w, reqs, n, envs) /\ UNCHANGED componentVars
  \/ \E r \in SoloRuns : DataStep(r)
  \/ \E w \in Workspaces : CancelClick(w)
  \/ \E w \in Workspaces : RefreshPanes(w)
  \/ \E w \in Workspaces, k \in 1..Len(store) : gotoExecutionResult(w, k)

DataSpec == Init /\ [][DataNext]_vars

\* The registry by itself: the functions of lines 709-734 called in any
\* order, for any workspace id and any request id of a list.
runVars ==
  << pc, inputVars, componentVars, i, j, nextRequestIdOrName, iterationResults, testCtx,
     resultCollector, thrown, returned, historyVars >>

StartCall(w) ==
  /\ runnerExecutions' = startExecution(runnerExecutions, w)
  /\ UNCHANGED << steps, isRunning, paneVars, store, cancelledRequests,
                  runVars >>

UpdateCall(w, requestId) ==
  /\ runnerExecutions' = updateExecution(runnerExecutions, w, requestId)
  /\ UNCHANGED << steps, isRunning, paneVars, store, cancelledRequests,
                  runVars >>

StopCall(w) ==
  /\ runnerExecutions' = stopExecution(runnerExecutions, w)
  /\ UNCHANGED << steps, isRunning, paneVars, store, cancelledRequests,
                  runVars >>

CancelCall(w) ==
  /\ Len(cancelledRequests) < MaxCancels
  /\ cancelExecution(w)
  /\ UNCHANGED << isRunning, paneVars, store, runVars >>

RegistryNext ==
  \/ \E w \in Workspaces : StartCall(w)
  \/ \E w \in Workspaces, k \in 1..MaxRequests : UpdateCall(w, RequestIdAt(k))
  \/ \E w \in Workspaces : StopCall(w)
  \/ \E w \in Workspaces : CancelCall(w)

RegistrySpec == Init /\ [][RegistryNext]_vars

\* ================================================================== claims
\* A run is in flight from its start until its action has returned or
\* rejected.
InFlight(r) == pc[r] \notin {"idle", "returned", "rejected"}

\* The records the store holds for a run id.
RecordsOf(w) == SelectSeq(store, LAMBDA rec : rec.parentId = w)

\* ---------------------------------------------------------------------- C1
\* C1: a run of N iterations over M requests in which no dispatch returned
\* a redirect target, nothing was thrown and no cancellation acted leaves
\* one record whose iterationResults has N entries of length M, the k-th
\* element of each carrying the name and url of requests[k], and whose
\* responsesInfo has N*M entries.
C1_PlainRunRecordsEveryRequest ==
  \A r \in Runs :
    ( /\ pc[r] = "returned"
      /\ thrown[r] = NoError
      /\ ~redirectSignalled[r]
      /\ cancelledRequests = << >> )
    => LET recs == RecordsOf(workspaceId[r])
           N == iterations[r]
           M == Len(requests[r])
       IN  /\ Len(recs) = 1
           /\ Len(recs[1].iterationResults) = N
           /\ \A it \in 1..N :
                /\ Len(recs[1].iterationResults[it]) = M
                /\ \A k \in 1..M :
                     /\ recs[1].iterationResults[it][k].requestName
                          = requests[r][k].name
                     /\ recs[1].iterationResults[it][k].requestUrl
                          = requests[r][k].url
           /\ Len(recs[1].responsesInfo) = N * M

C1_Witness ==
  /\ pc[1] = "returned"
  /\ thrown[1] = NoError
  /\ ~redirectSignalled[1]
  /\ cancelledRequests = << >>
  /\ iterations[1] = 2
  /\ Len(requests[1]) = 3
  /\ Len(store) = 1
  /\ Len(store[1].responsesInfo) = 6

\* ---------------------------------------------------------------------- C2
\* C2: runnerTestResult.create is called at most once by a run, not before
\* the loop is left, and exactly once by the time the action returns its
\* redirect, whether the run completed, failed or was cancelled; the record
\* is then in the store.
C2_PersistedExactlyOnceBeforeReturn ==
  \A r \in Runs :
    /\ createCalls[r] <= 1
    /\ pc[r] \in {"idle", "awaitMeta", "awaitSleep", "awaitSend"}
         => createCalls[r] = 0
    /\ pc[r] \in {"awaitCreate", "rejected"} => createCalls[r] = 1
    /\ pc[r] = "returned"
         => /\ createCalls[r] = 1
            /\ returned[r] # NoRedirect
            /\ Len(RecordsOf(workspaceId[r])) = 1

C2_Witness ==
  /\ pc[1] = "returned"
  /\ thrown[1] = StoppedError
  /\ createCalls[1] = 1
  /\ Len(store) = 1
  /\ Len(dispatchLog[1]) >= 1

\* ---------------------------------------------------------------------- C3
\* C3 (as claimed): whenever a run hands a request to the executor, the
\* registry entry of its run id is present, i.e. a removal at any moment
\* before the dispatch, the awaits of lines 814 and 820 included, stops the
\* run before that dispatch.
C3_NoDispatchAfterRemoval ==
  [][ \A r \in Runs :
        (pc[r] = "awaitSleep" /\ pc'[r] = "awaitSend")
          => workspaceId[r] \in DOMAIN runnerExecutions ]_vars

\* C3 (amended): the entry is looked at once per request, at line 784,
\* before the awaits of lines 814 and 820.  When it is absent at that check
\* (the check that follows the return of the previous dispatch) the run
\* marks and dispatches nothing more; and a run that has left the loop
\* dispatches nothing.  A removal during the two awaits is not looked at
\* before the dispatch.
C3_StopsAtLivenessCheck ==
  [][ \A r \in Runs :
        /\ (pc[r] = "awaitSend" /\ workspaceId[r] \notin DOMAIN runnerExecutions)
             => /\ pc'[r] \in {"awaitSend", "awaitCreate"}
                /\ dispatchLog'[r] = dispatchLog[r]
        /\ pc[r] \in {"awaitCreate", "returned", "rejected"}
             => /\ pc'[r] \in {"awaitCreate", "returned", "rejected"}
                /\ dispatchLog'[r] = dispatchLog[r] ]_vars

C3_Witness ==
  /\ pc[1] = "awaitCreate"
  /\ thrown[1] = StoppedError
  /\ i[1] = 0
  /\ j[1] = 1
  /\ Len(requests[1]) = 3
  /\ Len(dispatchLog[1]) = 1
  /\ dispatchLog[1][1].iter = 0
  /\ dispatchLog[1][1].idx = 0
  /\ cancelledRequests = << requests[1][1].id >>

\* ---------------------------------------------------------------------- C4
\* C4 (as claimed): the record of a run aborted in the middle of an
\* iteration has an entry for that iteration holding the results of the
\* requests that had completed in it.
C4_PartialIterationIsPersisted ==
  \A r \in Runs :
    ( /\ pc[r] = "returned"
      /\ thrown[r] # NoError
      /\ iterationResults[r] # << >> )
    => LET rec == RecordsOf(workspaceId[r])[1]
       IN  /\ Len(rec.iterationResults) = i[r] + 1
           /\ rec.iterationResults[i[r] + 1] = iterationResults[r]

\* ---------------------------------------------------------------------- C5
\* C5 (as claimed, the half the code breaks): the registry holds an entry
\* for a run id only while a run for that id is in flight, so none remains
\* once runCollectionAction has returned.
C5_EntryOnlyWhileInFlight ==
  \A w \in Workspaces :
    w \in DOMAIN runnerExecutions
      => \E r \in Runs : InFlight(r) /\ workspaceId[r] = w

\* ------------------------------------------------------------- C6, C7, C8
\* The registry entry of run r is present.
Alive(r) == workspaceId[r] \in DOMAIN runnerExecutions

\* The 0-based indices of the requests whose trimmed name is the trimmed
\* target, and the greatest of them (-1 when there is none).
NameIndices(reqs, t) ==
  { q \in 0..(Len(reqs) - 1) : Trim(reqs[q + 1].name) = Trim(t) }

LastNameIndex(reqs, t) ==
  IF NameIndices(reqs, t) = {} THEN -1
  ELSE CHOOSE q \in NameIndices(reqs, t) :
         \A p \in NameIndices(reqs, t) : p <= q

MatchesSomeId(reqs, t) == \E q \in 1..Len(reqs) : reqs[q].id = t

\* Run r goes on, in the iteration it is in, with the request at index m.
GoesOnWith(r, m) ==
  /\ pc'[r] = "awaitMeta"
  /\ i'[r] = i[r]
  /\ j'[r] = m

\* Run r marks no further request in the iteration it is in.
NoFurtherRequest(r) == ~(pc'[r] = "awaitMeta" /\ i'[r] = i[r])

\* C6 (as claimed): when the dispatch at index k returns the id of the
\* request at a later index m, and the run has not been stopped, the run
\* goes on with request m, whatever the names of the requests are.
C6_RedirectByIdAsClaimed ==
  [][ \A r \in Runs, t \in RedirectTargets, d \in Durations :
        \A m \in 0..(Len(requests[r]) - 1) :
          ( /\ SendReturn(r, t, d, PassedOnly)
            /\ Alive(r)
            /\ m > j[r]
            /\ requests[r][m + 1].id = t )
          => GoesOnWith(r, m) ]_vars

\* C6 (amended): when the dispatch at index k returns the id of the request
\* at a later index m and the registry entry is present, the run goes on
\* with request m and dispatches nothing between k and m, unless the last
\* request of the list whose trimmed name equals the trimmed target lies
\* strictly between k and m: then that request resolves the redirect and the
\* run goes on with it.  With the entry removed the run stops instead.
C6_RedirectById ==
  [][ \A r \in Runs, t \in RedirectTargets, d \in Durations :
        \A m \in 0..(Len(requests[r]) - 1) :
          ( /\ SendReturn(r, t, d, PassedOnly)
            /\ m > j[r]
            /\ requests[r][m + 1].id = t )
          => LET L == LastNameIndex(requests[r], t)
             IN  IF Alive(r)
                   THEN GoesOnWith(r, IF j[r] < L /\ L < m THEN L ELSE m)
                   ELSE /\ pc'[r] = "awaitCreate"
                        /\ thrown'[r] = StoppedError ]_vars

C6_Witness ==
  /\ pc[1] = "awaitMeta"
  /\ resolvedTarget[1] = requests[1][j[1] + 1].id
  /\ dispatchLog[1] # << >>
  /\ dispatchLog[1][Len(dispatchLog[1])].iter = i[1]
  /\ dispatchLog[1][Len(dispatchLog[1])].idx + 1 < j[1]

\* C7: when the dispatch at index k returns a target that equals no id and
\* is, after trimming, the name of several requests, the only request the
\* run can go on with in that iteration is the one at the last index of the
\* whole list that has this name: the earlier ones are skipped, and when
\* that index is not after k nothing resolves the redirect.  With its entry
\* present and that index after k the run does go on with it.
C7_RedirectByDuplicateName ==
  [][ \A r \in Runs, t \in RedirectTargets, d \in Durations :
        ( /\ SendReturn(r, t, d, PassedOnly)
          /\ ~MatchesSomeId(requests[r], t)
          /\ Cardinality(NameIndices(requests[r], t)) >= 2 )
        => LET L == LastNameIndex(requests[r], t)
           IN  /\ NoFurtherRequest(r) \/ GoesOnWith(r, L)
               /\ L <= j[r] => NoFurtherRequest(r)
               /\ (Alive(r) /\ L > j[r]) => GoesOnWith(r, L) ]_vars

C7_Witness ==
  /\ pc[1] = "awaitMeta"
  /\ resolvedTarget[1] = << " ", "A" >>
  /\ j[1] = 2
  /\ Trim(requests[1][2].name) = << "A" >>
  /\ Trim(requests[1][3].name) = << "A" >>
  /\ dispatchLog[1][Len(dispatchLog[1])].iter = i[1]
  /\ dispatchLog[1][Len(dispatchLog[1])].idx = 0

\* No request after index k has the target as its id, or as its trimmed
\* name while being the last request of the list with that name.
Unresolvable(reqs, k, t) ==
  \A q \in (k + 1)..(Len(reqs) - 1) :
    /\ reqs[q + 1].id # t
    /\ ~(Trim(reqs[q + 1].name) = Trim(t) /\ q = LastNameIndex(reqs, t))

\* C8: when the dispatch at index k returns a target nothing
\* after k resolves, no further request of that iteration is marked or
\* dispatched, and the redirect raises nothing: unless the entry has been
\* removed (the only thing thrown then is the stop of line 785), the
\* iteration's shorter result sequence is appended to iterationResults and
\* the run goes on with request 0 of the next iteration, or ends without
\* error after the last.
C8_UnresolvableRedirect ==
  [][ \A r \in Runs, t \in RedirectTargets, d \in Durations :
        ( /\ SendReturn(r, t, d, PassedOnly)
          /\ Unresolvable(requests[r], j[r], t) )
        => /\ NoFurtherRequest(r)
           /\ thrown'[r] \in {NoError, StoppedError}
           /\ thrown'[r] = StoppedError => ~Alive(r)
           /\ (Alive(r) \/ j[r] = Len(requests[r]) - 1)
                => /\ Len(testCtx'[r].iterationResults) >= i[r] + 1
                   /\ Len(testCtx'[r].iterationResults[i[r] + 1])
                        = Len(iterationResults[r]) + 1
           /\ Alive(r)
                => IF i[r] + 1 < iterations[r]
                     THEN /\ pc'[r] = "awaitMeta"
                          /\ i'[r] = i[r] + 1
                          /\ j'[r] = 0
                     ELSE /\ pc'[r] = "awaitCreate"
                          /\ thrown'[r] = NoError ]_vars

C8_Witness ==
  /\ pc[1] = "awaitMeta"
  /\ i[1] = 1
  /\ j[1] = 0
  /\ Len(requests[1]) = 3
  /\ Len(testCtx[1].iterationResults) = 1
  /\ Len(testCtx[1].iterationResults[1]) = 1
  /\ thrown[1] = NoError

\* ---------------------------------------------------------------------- C9
FailureThrown(r) ==
  thrown[r] = RequestMetaMissing \/ thrown[r] \in ExecutorFailures

\* The error payload of the redirect for each failure.
ExpectedErrorPayload(e) ==
  CASE e = RequestMetaMissing ->
         << "Error", "%3A", "%20", "Request", "%20", "meta", "%20", "not",
            "%20", "found" >>
    [] e.kind = "object" -> << "socket", "%20", "hang", "%20", "up" >>
    [] OTHER -> << "Error", "%3A", "%20", "timeout" >>

C9_AbortedState ==
  \A r \in Runs :
    FailureThrown(r)
      => /\ pc[r] \in {"awaitCreate", "returned", "rejected"}
         /\ workspaceId[r] \notin DOMAIN runnerExecutions
         /\ pc[r] = "returned"
              => /\ returned[r].kind = "redirect"
                 /\ returned[r].error = ExpectedErrorPayload(thrown[r])

C9_AbortedStep ==
  \A r \in Runs :
    FailureThrown(r)
      => /\ dispatchLog'[r] = dispatchLog[r]
         /\ thrown'[r] = thrown[r]
         /\ pc'[r] \in {"awaitCreate", "returned", "rejected"}

\* C9: once the request meta is missing or the executor has thrown, the run
\* dispatches nothing more and never re-enters the loop, its registry entry
\* is gone, and what the action returns is the redirect whose error
\* payload is the encoded failure message.
C9_FailureAbortsRun == []C9_AbortedState /\ [][C9_AbortedStep]_vars

C9_Witness ==
  /\ pc[1] = "returned"
  /\ thrown[1] \in ExecutorFailures
  /\ iterations[1] = 2
  /\ i[1] = 0
  /\ j[1] = 1
  /\ Len(requests[1]) = 3
  /\ cancelledRequests = << requests[1][2].id >>

\* --------------------------------------------------------------------- C10
\* The dispatches of run r that began and have neither been appended nor
\* thrown.
DispatchesInFlight(r) ==
  Len(dispatchLog[r]) - Len(testCtx[r].responsesInfo)
    - (IF thrown[r] \in ExecutorFailures THEN 1 ELSE 0)

\* The dispatches of run r begun in iteration it.
DispatchesIn(r, it) ==
  Cardinality({ k \in 1..Len(dispatchLog[r]) : dispatchLog[r][k].iter = it })

\* C10: a run has at most one dispatch in flight, and exactly while it
\* awaits sendActionImp; every earlier dispatch has then returned and been
\* appended to the iteration's results and to responsesInfo, and the result
\* sequences of all earlier iterations are in iterationResults.
C10_OneRequestAtATime ==
  \A r \in Runs :
    /\ DispatchesInFlight(r) = (IF pc[r] = "awaitSend" THEN 1 ELSE 0)
    /\ pc[r] \in {"awaitMeta", "awaitSleep", "awaitSend"}
         => /\ Len(testCtx[r].iterationResults) = i[r]
            /\ Len(iterationResults[r]) + DispatchesInFlight(r)
                 = DispatchesIn(r, i[r])
            /\ \A k \in 1..Len(dispatchLog[r]) : dispatchLog[r][k].iter <= i[r]

C10_Witness ==
  /\ pc[1] = "awaitSend"
  /\ i[1] = 1
  /\ j[1] = 1
  /\ Len(dispatchLog[1]) = 5
  /\ Len(testCtx[1].responsesInfo) = 4

\* --------------------------------------------------------------------- C11
\* C11: a step performed for run id A (a step of an invocation for A, with
\* its startExecution, updateExecution and, on a failure, cancelExecution,
\* or the Cancel control of A) leaves the registry entry of every other run
\* id B as it was, and leaves every invocation for B where it was: its
\* position, the dispatches it has begun and what it has thrown.
C11_DistinctRunsIndependent ==
  [][ \A a \in Workspaces :
        \A b \in Workspaces \ {a} :
          ( \/ CancelClick(a)
            \/ \E r \in Runs : workspaceId'[r] = a /\ pc'[r] # pc[r] )
          => /\ getExecution(runnerExecutions', b)
                  = getExecution(runnerExecutions, b)
             /\ \A q \in Runs :
                  (workspaceId[q] = b /\ InFlight(q))
                    => /\ pc'[q] = pc[q]
                       /\ dispatchLog'[q] = dispatchLog[q]
                       /\ thrown'[q] = thrown[q] ]_vars

C11_Witness ==
  /\ workspaceId[1] = "w1"
  /\ workspaceId[2] = "w2"
  /\ thrown[1] = StoppedError
  /\ "w1" \notin DOMAIN runnerExecutions
  /\ pc[2] = "awaitSend"
  /\ getExecution(runnerExecutions, "w2") = CurrentRequest(2).id
  /\ cancelledRequests # << >>

\* --------------------------------------------------------------------- C12
\* C12 (as claimed): while an invocation for run id W is in flight, no step
\* of another invocation for the same W inserts, overwrites or removes the
\* registry entry of W.
C12_RunOwnsItsKey ==
  [][ \A r \in Runs :
        \A q \in Runs \ {r} :
          ( /\ InFlight(r)
            /\ pc'[q] # pc[q]
            /\ workspaceId'[q] = workspaceId[r] )
          => getExecution(runnerExecutions', workspaceId[r])
               = getExecution(runnerExecutions, workspaceId[r]) ]_vars

\* --------------------------------------------------------------------- C13
\* C13: with N >= 1 upload entries every dispatch of iteration index it is
\* handed entry[it] when it < N and entry[(it + 1) % N] when it >= N, an entry
\* whose index is within 0..N-1 (for N = 2 and it = 2 it is entry[1]); with
\* no upload entries the dispatch is handed undefined.
C13_UploadDataBinding ==
  \A r \in Runs :
    \A k \in 1..Len(dispatchLog[r]) :
      LET N == Len(userUploadEnvs[r])
          it == dispatchLog[r][k].iter
          data == dispatchLog[r][k].userUploadEnv
      IN  IF N = 0
            THEN data = Undefined
            ELSE /\ \E x \in 0..(N - 1) : data = UploadEnvAt(x)
                 /\ it < N => data = UploadEnvAt(it)
                 /\ it >= N => data = UploadEnvAt((it + 1) % N)
                 /\ (N = 2 /\ it = 2) => data = UploadEnvAt(1)

C13_Witness ==
  /\ Len(userUploadEnvs[1]) = 2
  /\ iterations[1] = 3
  /\ Len(dispatchLog[1]) = 3
  /\ dispatchLog[1][3].iter = 2
  /\ dispatchLog[1][3].userUploadEnv = UploadEnvAt(1)
  /\ dispatchLog[1][2].userUploadEnv = UploadEnvAt(1)
  /\ dispatchLog[1][1].userUploadEnv = UploadEnvAt(0)

\* --------------------------------------------------------------------- C14
\* The name of the latest step the tracker holds for a run id.
LatestStepName(w) ==
  IF steps[w] = << >> THEN EmptyString ELSE steps[w][Len(steps[w])]

\* C14 (as claimed): whenever the latest step of the run id of a started
\* invocation is named 'Done', the invocation is over: it has returned or
\* rejected, so that no request of it is in flight or still to be
\* dispatched and its record is not still being created.
C14_DoneMeansCompleted ==
  \A r \in Runs :
    (pc[r] # "idle" /\ LatestStepName(workspaceId[r]) = DoneStepName)
      => pc[r] \in {"returned", "rejected"}

\* --------------------------------------------------------------------- C15
\* C15 (as claimed): whatever value the registry holds for a run id, the
\* empty string startExecution puts there included, the registry that
\* cancelExecution leaves has no entry for that id.
C15_CancelRemovesEntry ==
  \A w \in DOMAIN runnerExecutions :
    getExecution(RegistryAfterCancel(runnerExecutions, w), w) = Undefined

\* --------------------------------------------------------------------- C16
\* The iterations run r has completed: the passes of the outer loop whose
\* inner loop ran to its end, which the outer counter i counts.
C16_Lengths ==
  /\ \A r \in Runs :
       /\ Len(testCtx[r].iterationResults) = i[r]
       /\ i[r] <= iterations[r]
  /\ \A k \in 1..Len(store) :
       Len(store[k].iterationResults) <= store[k].iterations

C16_Growth ==
  \A r \in Runs :
    pc[r] # "idle"
      => LET before == testCtx[r].iterationResults
             after == testCtx'[r].iterationResults
         IN  /\ Len(after) - Len(before) = i'[r] - i[r]
             /\ Len(after) \in {Len(before), Len(before) + 1}
             /\ SubSeq(after, 1, Len(before)) = before

\* C16: at every step of a run the length of testCtx.iterationResults is
\* the number of iterations completed so far; a step adds one sequence
\* exactly when it completes an iteration and otherwise leaves the
\* sequences as they are, none is ever removed or replaced, and no record
\* has more sequences than the iteration count it was run with.
C16_IterationResultsLength == []C16_Lengths /\ [][C16_Growth]_vars

C16_Witness ==
  /\ pc[1] = "returned"
  /\ thrown[1] = StoppedError
  /\ iterations[1] = 2
  /\ i[1] = 1
  /\ Len(store) = 1
  /\ Len(store[1].iterationResults) = 1
  /\ Len(store[1].responsesInfo) > Len(store[1].iterationResults[1])

\* --------------------------------------------------------------------- C17
\* The dispatches of run r that have returned without throwing: those
\* begun, less the one sendActionImp is still awaited for and the one it
\* threw for.
CompletedDispatches(r) ==
  Len(dispatchLog[r]) - (IF pc[r] = "awaitSend" THEN 1 ELSE 0)
    - (IF thrown[r] \in ExecutorFailures THEN 1 ELSE 0)

\* C17: at every step of a run testCtx.responsesInfo has one entry per
\* dispatch that has returned without throwing, over all iterations and
\* whether or not the iteration was completed later; the k-th entry carries
\* the id and the name of the request of the k-th dispatch; and the record
\* the run persists holds these entries.
C17_ResponsesInfoPerDispatch ==
  \A r \in Runs :
    LET info == testCtx[r].responsesInfo IN
    /\ Len(info) = CompletedDispatches(r)
    /\ \A k \in 1..Len(info) :
         LET req == requests[r][dispatchLog[r][k].idx + 1]
         IN  /\ info[k].originalRequestId = req.id
             /\ info[k].originalRequestName = req.name
    /\ pc[r] = "returned"
         => RecordsOf(workspaceId[r])[1].responsesInfo = info

C17_Witness ==
  /\ pc[1] = "returned"
  /\ thrown[1] \in ExecutorFailures
  /\ i[1] = 0
  /\ Len(dispatchLog[1]) = 3
  /\ dispatchLog[1][2].idx = 1
  /\ Len(store[1].responsesInfo) = 2
  /\ store[1].responsesInfo[2].originalRequestId = RequestIdAt(2)
  /\ store[1].iterationResults = << >>

\* --------------------------------------------------------------------- C18
\* The test cases of a record, as <<iteration, request, case>> positions.
TestCasesOf(result) ==
  UNION { UNION { { <<a, b, c>> :
                      c \in 1..Len(result.iterationResults[a][b].results) }
                  : b \in 1..Len(result.iterationResults[a]) }
          : a \in 1..Len(result.iterationResults) }

PassedCasesOf(result) ==
  { t \in TestCasesOf(result) :
      result.iterationResults[t[1]][t[2]].results[t[3]].status = "passed" }

\* C18: for the record the component shows, totalTestCount is the number
\* of test cases over all iterations and requests and passedTestCount the
\* number of those whose status is 'passed', so 0 <= passed <= total; the
\* counts are determined by the record and isRunning, which computing them
\* does not write, so that computing them again gives the same; and they
\* are both 0 while isRunning is set, and while no record is shown.
C18_PassTotalCounter ==
  \A w \in Workspaces :
    LET counts == TestCounts(isRunning[w], executionResult[w]) IN
    /\ 0 <= counts.passed
    /\ counts.passed <= counts.total
    /\ (isRunning[w] \/ executionResult[w] = NoResult)
         => counts = [passed |-> 0, total |-> 0]
    /\ (~isRunning[w] /\ executionResult[w] # NoResult)
         => /\ counts.total = Cardinality(TestCasesOf(executionResult[w]))
            /\ counts.passed = Cardinality(PassedCasesOf(executionResult[w]))

C18_Witness ==
  /\ ~isRunning["w1"]
  /\ executionResult["w1"] # NoResult
  /\ Len(executionResult["w1"].iterationResults) = 3
  /\ TestCounts(isRunning["w1"], executionResult["w1"])
       = [passed |-> 2, total |-> 3]

\* --------------------------------------------------------------------- C19
\* C19 (as claimed): while an invocation is in flight and the entry of its
\* run id is present, the entry holds the id of the request currently being
\* dispatched: the request the invocation has marked and whose request
\* meta, delay or response it awaits.  (The empty string of startExecution
\* is replaced by the first request's id before the first await.)
C19_EntryIsCurrentRequest ==
  \A r \in Runs :
    (InFlight(r) /\ Alive(r))
      => /\ pc[r] \in {"awaitMeta", "awaitSleep", "awaitSend"}
         /\ getExecution(runnerExecutions, workspaceId[r]) = CurrentRequest(r).id

\* --------------------------------------------------------------------- C20
\* C20: every inner sequence of the iterationResults a run has persisted
\* has at most requests.length entries, and one with fewer belongs to an
\* iteration in which a dispatch returned a redirect target, or to the
\* iteration the run was interrupted in.
C20_InnerSequenceLengths ==
  \A r \in Runs :
    pc[r] = "returned"
      => LET rec == RecordsOf(workspaceId[r])[1]
             M == Len(requests[r])
         IN  \A it \in 1..Len(rec.iterationResults) :
               /\ Len(rec.iterationResults[it]) <= M
               /\ Len(rec.iterationResults[it]) < M
                    => \/ (it - 1) \in redirectedIterations[r]
                       \/ thrown[r] # NoError /\ i[r] = it - 1

C20_Witness ==
  /\ pc[1] = "returned"
  /\ thrown[1] = NoError
  /\ Len(requests[1]) = 3
  /\ redirectedIterations[1] = {0}
  /\ Len(store[1].iterationResults) = 2
  /\ Len(store[1].iterationResults[1]) = 2
  /\ Len(store[1].iterationResults[2]) = 3

\* --------------------------------------------------------------------- C21
\* C21: the steps a run takes for a request come in the order of the
\* code.  A request is marked (registry entry and step name written) only
\* by the start of the run or after a dispatch has returned and the
\* liveness check has found the entry; the await of the request meta
\* follows the marking, the delay follows the request meta, the dispatch
\* follows the delay (the first dispatch of the run too) and is of the
\* request marked; the results are appended only when the dispatch returns;
\* and no delay is awaited once the loop has been left.
C21_RequestStepsInOrder ==
  [][ \A r \in Runs :
        LET w == workspaceId'[r]
            marked == requests'[r][j'[r] + 1]
        IN
        /\ (pc'[r] = "awaitMeta" /\ pc[r] # "awaitMeta")
             => /\ pc[r] \in {"idle", "awaitSend"}
                /\ pc[r] = "awaitSend" => Alive(r)
                /\ getExecution(runnerExecutions', w) = marked.id
                /\ steps'[w][Len(steps'[w])]
                     = ExecutingStepName(i'[r], j'[r], Len(requests'[r]),
                                         marked.name)
        /\ (pc'[r] = "awaitSleep" /\ pc[r] # "awaitSleep")
             => pc[r] = "awaitMeta"
        /\ dispatchLog'[r] # dispatchLog[r]
             => /\ pc[r] = "awaitSleep"
                /\ pc'[r] = "awaitSend"
                /\ Len(dispatchLog'[r]) = Len(dispatchLog[r]) + 1
                /\ dispatchLog'[r][Len(dispatchLog'[r])].iter = i[r]
                /\ dispatchLog'[r][Len(dispatchLog'[r])].idx = j[r]
                /\ resultCollector'[r].requestId = CurrentRequest(r).id
        /\ testCtx'[r].responsesInfo # testCtx[r].responsesInfo
             => /\ pc[r] = "awaitSend"
                /\ pc'[r] # "awaitSend"
                /\ Len(testCtx'[r].responsesInfo)
                     = Len(testCtx[r].responsesInfo) + 1
        /\ pc[r] \in {"awaitSend", "awaitCreate", "returned", "rejected"}
             => pc'[r] # "awaitSleep" ]_vars

C21_Witness ==
  /\ pc[1] = "awaitSend"
  /\ Len(requests[1]) = 2
  /\ Len(dispatchLog[1]) = 1
  /\ testCtx[1].responsesInfo = << >>
  /\ resultCollector[1].requestId = RequestIdAt(1)
  /\ getExecution(runnerExecutions, "w1") = RequestIdAt(1)
  /\ steps["w1"] = << ExecutingStepName(0, 0, 2, requests[1][1].name) >>

\* --------------------------------------------------------------------- C22
\* C22: once a run has left its loop, and so when it returns, the latest
\* step of its run id is named 'Done': written by the run itself on
\* completion, by cancelExecution in the catch on a failure, and by the
\* cancel that removed the entry when the run was stopped.
C22_DoneWhenReturned ==
  \A r \in Runs :
    pc[r] \in {"awaitCreate", "returned"}
      => /\ LatestStepName(workspaceId[r]) = DoneStepName
         /\ thrown[r] = StoppedError => cancelledRequests # << >>

C22_Witness ==
  /\ pc[1] = "returned"
  /\ thrown[1] \in ExecutorFailures
  /\ Len(dispatchLog[1]) = 2
  /\ steps["w1"] = << DoneStepName >>
  /\ returned[1].error # Undefined
  /\ ~isRunning["w1"]

\* --------------------------------------------------------------------- C23
\* The encoded message of the stop.
StoppedPayload ==
  << "Runner", "%20", "has", "%20", "been", "%20", "stopped" >>

\* A liveness check follows the request at index j of iteration i: there
\* is a later index in the iteration or a later iteration.
CheckFollows(r) ==
  j[r] + 1 < Len(requests[r]) \/ i[r] + 1 < iterations[r]

C23_StoppedState ==
  \A r \in Runs :
    (pc[r] = "returned" /\ thrown[r] = StoppedError)
      => /\ returned[r].error = StoppedPayload
         /\ Len(RecordsOf(workspaceId[r])) = 1

C23_CancelledStep ==
  \A r \in Runs :
    (InFlight(r) /\ ~Alive(r))
      => /\ workspaceId[r] \notin DOMAIN runnerExecutions'
         /\ pc[r] = "awaitMeta" => pc'[r] \in {"awaitMeta", "awaitSleep", "awaitCreate"}
         /\ pc[r] = "awaitSleep" => pc'[r] \in {"awaitSleep", "awaitSend"}
         /\ pc[r] = "awaitSend" => pc'[r] \in {"awaitSend", "awaitCreate"}
         /\ pc[r] = "awaitCreate"
              => pc'[r] \in {"awaitCreate", "returned", "rejected"}
         /\ (pc[r] = "awaitSend" /\ pc'[r] = "awaitCreate"
               /\ thrown'[r] \notin ExecutorFailures)
              => /\ Len(testCtx'[r].responsesInfo)
                      = Len(testCtx[r].responsesInfo) + 1
                 /\ testCtx'[r].responsesInfo[Len(testCtx'[r].responsesInfo)]
                      .originalRequestId = CurrentRequest(r).id
                 /\ LET results ==
                          IF j[r] + 1 < Len(requests[r])
                            THEN iterationResults'[r]
                            ELSE testCtx'[r].iterationResults[i[r] + 1]
                    IN  /\ Len(results) = Len(iterationResults[r]) + 1
                        /\ results[Len(results)].requestName
                             = CurrentRequest(r).name
                 /\ thrown'[r] =
                      (IF CheckFollows(r) THEN StoppedError ELSE NoError)

\* C23: for a single invocation, once a cancel has removed the entry the
\* entry stays absent and the run only moves forward to its end: a request
\* whose liveness check had passed is still dispatched (one at most), a
\* dispatch in flight may return and its result and ResponseInfo are
\* appended, no further request is marked, and at the next liveness check,
\* when one follows, the run throws 'Runner has been stopped', which it
\* returns as the error payload of its redirect after persisting.
C23_CooperativeCancel == []C23_StoppedState /\ [][C23_CancelledStep]_vars

C23_Witness ==
  /\ pc[1] = "awaitSleep"
  /\ ~Alive(1)
  /\ j[1] = 1
  /\ Len(requests[1]) = 3
  /\ Len(dispatchLog[1]) = 1
  /\ cancelledRequests = << RequestIdAt(2) >>
  /\ thrown[1] = NoError

\* --------------------------------------------------------------------- C24
\* A run has ended: its action has returned or rejected.
Ended(r) == pc[r] \in {"returned", "rejected"}

\* C24 (as claimed): a run ends only by returning a redirect, with its
\* record persisted.
C24_EndsPersistedAndReturned ==
  \A r \in Runs :
    Ended(r)
      => /\ returned[r] # NoRedirect
         /\ Len(RecordsOf(workspaceId[r])) = 1

C24_DispatchBound ==
  \A r \in Runs :
    /\ Len(dispatchLog[r]) <= iterations[r] * Len(requests[r])
    /\ pc[r] = "returned"
         => /\ returned[r] # NoRedirect
            /\ Len(RecordsOf(workspaceId[r])) = 1
    /\ pc[r] = "rejected"
         => /\ returned[r] = NoRedirect
            /\ RecordsOf(workspaceId[r]) = << >>

\* C24 (amended): when the request meta, the delay, the dispatch and the
\* create of the record each eventually resolve or reject, every started
\* run ends; it has then returned a redirect with its record persisted
\* when the create resolved, and has rejected with neither when the create
\* rejected; and a run begins at most N*M dispatches.
C24_RunTerminates ==
  /\ \A r \in Runs : (pc[r] # "idle") ~> Ended(r)
  /\ []C24_DispatchBound

C24_Witness ==
  /\ pc[1] = "rejected"
  /\ thrown[1] = NoError
  /\ iterations[1] = 2
  /\ Len(requests[1]) = 3
  /\ Len(dispatchLog[1]) = 6
  /\ store = << >>

\* --------------------------------------------------------------------- C25
\* The dispatches of iteration x begin with the request at index 0.
StartsAtFirstRequest(r, x) ==
  \E k \in 1..Len(dispatchLog[r]) :
    /\ dispatchLog[r][k].iter = x
    /\ dispatchLog[r][k].idx = 0
    /\ \A m \in 1..(k - 1) : dispatchLog[r][m].iter < x

C25_EmptyAtDispatch ==
  \A r \in Runs :
    /\ pc[r] \in {"awaitMeta", "awaitSleep", "awaitSend"}
         => nextRequestIdOrName[r] = EmptyString
    /\ \A x \in 0..(i[r] - 1) : StartsAtFirstRequest(r, x)
    /\ \A k \in 1..Len(dispatchLog[r]) :
         StartsAtFirstRequest(r, dispatchLog[r][k].iter)

C25_IterationStart ==
  \A r \in Runs :
    (pc'[r] = "awaitMeta" /\ (pc[r] = "idle" \/ i'[r] # i[r]))
      => /\ j'[r] = 0
         /\ nextRequestIdOrName'[r] = EmptyString
         /\ runnerExecutions'[workspaceId'[r]] = requests'[r][1].id

\* C25: the redirect target is empty when an iteration starts and when a
\* request is marked, awaited or dispatched; an iteration that starts with
\* the run's entry present takes the request at index 0, and the dispatches
\* of every iteration begin with index 0, whatever target was pending when
\* the iteration before it ended.
C25_NoCarryOver == []C25_EmptyAtDispatch /\ [][C25_IterationStart]_vars

\* Iteration 0 dispatched only its first request, which signalled a target
\* that no later request matched; iteration 1 has started at index 0.
C25_Witness ==
  /\ pc[1] = "awaitSend"
  /\ Len(requests[1]) = 2
  /\ redirectedIterations[1] = {0}
  /\ Len(dispatchLog[1]) = 2
  /\ dispatchLog[1][1].iter = 0
  /\ dispatchLog[1][2].iter = 1
  /\ dispatchLog[1][2].idx = 0

\* --------------------------------------------------------------------- C26
\* Within an iteration the dispatched indices strictly increase.
C26_IncreasingIndices ==
  \A r \in Runs :
    \A k, m \in 1..Len(dispatchLog[r]) :
      (k < m /\ dispatchLog[r][k].iter = dispatchLog[r][m].iter)
        => dispatchLog[r][k].idx < dispatchLog[r][m].idx

\* C26 (as claimed): when the dispatch at index k returns the id of the
\* request at index k or at an earlier index, no further request of the
\* iteration is taken.
C26_BackwardRedirectSkipsRest ==
  [][ \A r \in Runs, t \in RedirectTargets, d \in Durations :
        \A m \in 0..(Len(requests[r]) - 1) :
          ( /\ SendReturn(r, t, d, PassedOnly)
            /\ m <= j[r]
            /\ requests[r][m + 1].id = t )
          => NoFurtherRequest(r) ]_vars

C26_BackwardRedirectStep ==
  \A r \in Runs, t \in RedirectTargets, d \in Durations :
    \A m \in 0..(Len(requests[r]) - 1) :
      ( /\ SendReturn(r, t, d, PassedOnly)
        /\ m <= j[r]
        /\ requests[r][m + 1].id = t )
      => LET L == LastNameIndex(requests[r], t)
         IN  IF Alive(r) /\ L > j[r]
               THEN GoesOnWith(r, L)
               ELSE NoFurtherRequest(r)

\* C26 (amended): within an iteration the dispatched indices strictly
\* increase, so no index is dispatched twice; when the dispatch at index k
\* returns the id of the request at index k or earlier, that request is not
\* taken again, and no further request of the iteration is taken unless
\* the last request whose trimmed name equals the trimmed target lies after
\* k and the run's entry is present: the run then goes on with that one.
C26_ForwardOnly == []C26_IncreasingIndices /\ [][C26_BackwardRedirectStep]_vars

\* The request at index 1 returned its own id, and the request at index 2,
\* whose name is that id, has been taken.
C26_Witness ==
  /\ pc[1] = "awaitMeta"
  /\ j[1] = 2
  /\ resolvedTarget[1] = requests[1][2].id
  /\ dispatchLog[1] # << >>
  /\ dispatchLog[1][Len(dispatchLog[1])].iter = i[1]
  /\ dispatchLog[1][Len(dispatchLog[1])].idx = 1

\* --------------------------------------------------------------------- C27
\* Run r awaits the dispatch of the last request of its last iteration.
FinalRequestInFlight(r) ==
  /\ pc[r] = "awaitSend"
  /\ j[r] + 1 = Len(requests[r])
  /\ i[r] + 1 = iterations[r]

C27_FinalDispatchReturns ==
  \A r \in Runs, t \in {EmptyString} \cup RedirectTargets, d \in Durations :
    ( /\ FinalRequestInFlight(r)
      /\ ~Alive(r)
      /\ SendReturn(r, t, d, PassedOnly) )
    => /\ pc'[r] = "awaitCreate"
       /\ thrown'[r] = NoError
       /\ Len(testCtx'[r].iterationResults) = iterations[r]
       /\ ~Alive(r)'

C27_SuccessPath ==
  \A r \in Runs :
    (pc[r] = "returned" /\ thrown[r] = NoError)
      => /\ returned[r] = SuccessRedirect(workspaceId[r])
         /\ Len(RecordsOf(workspaceId[r])) = 1
         /\ Len(RecordsOf(workspaceId[r])[1].iterationResults) = iterations[r]

\* C27: when the run's entry has been removed by a cancel while the last
\* request of the last iteration is in flight and the dispatch returns,
\* nothing is thrown: all N sequences are in testCtx, the create is awaited
\* without an error, and the run returns the redirect without an error
\* parameter, its record holding N sequences.
C27_LateCancelSucceeds ==
  []C27_SuccessPath /\ [][C27_FinalDispatchReturns]_vars

\* The last request was cancelled, all requests of both iterations were
\* dispatched, and the run has returned without an error.
C27_Witness ==
  /\ pc[1] = "returned"
  /\ returned[1] = SuccessRedirect("w1")
  /\ ~Alive(1)
  /\ iterations[1] = 2
  /\ Len(requests[1]) = 2
  /\ Len(dispatchLog[1]) = 4
  /\ cancelledRequests = << RequestIdAt(2) >>
  /\ Len(store[1].iterationResults) = 2

\* --------------------------------------------------------------------- C28
\* The registry has no entry for w, or the empty string.
NothingToCancel(m, w) == ~Truthy(getExecution(m, w))

C28_CancelStep ==
  \A w \in Workspaces :
    cancelExecution(w)
      => /\ NothingToCancel(runnerExecutions', w)
         /\ NothingToCancel(runnerExecutions, w)
              => UNCHANGED << runnerExecutions, steps, cancelledRequests >>
         /\ ~NothingToCancel(runnerExecutions, w)
              => /\ cancelledRequests' =
                      Append(cancelledRequests, runnerExecutions[w])
                 /\ w \notin DOMAIN runnerExecutions'

C28_SecondCancelIsIdentity ==
  \A w \in Workspaces :
    RegistryAfterCancel(RegistryAfterCancel(runnerExecutions, w), w)
      = RegistryAfterCancel(runnerExecutions, w)

\* C28: cancelExecution for an id whose entry is absent or the empty string
\* changes neither the registry nor the step tracker nor the cancelled
\* requests; every cancelExecution leaves such an entry behind, so a second
\* one right after it changes nothing and cancelRequestById is called once
\* for the two.
C28_CancelIdempotent == []C28_SecondCancelIsIdentity /\ [][C28_CancelStep]_vars

\* w1's request has been cancelled and its entry is gone; w2's entry holds
\* the empty string.
C28_Witness ==
  /\ "w1" \notin DOMAIN runnerExecutions
  /\ "w2" \in DOMAIN runnerExecutions
  /\ runnerExecutions["w2"] = EmptyString
  /\ cancelledRequests = << RequestIdAt(1) >>

\* --------------------------------------------------------------------- C29
\* C29: the dispatch made in the pass i of the outer loop is given the
\* iteration number i + 1 and the iteration count N of the run; the numbers
\* given lie in 1..N and never decrease from one dispatch to the next, and
\* two dispatches with the same iteration number are given the same upload
\* data.
C29_IterationArguments ==
  \A r \in Runs :
    /\ \A k \in 1..Len(dispatchLog[r]) :
         /\ dispatchLog[r][k].iteration = dispatchLog[r][k].iter + 1
         /\ dispatchLog[r][k].iterationCount = iterations[r]
         /\ dispatchLog[r][k].iteration \in 1..iterations[r]
    /\ \A k, m \in 1..Len(dispatchLog[r]) :
         k < m
           => /\ dispatchLog[r][k].iteration <= dispatchLog[r][m].iteration
              /\ dispatchLog[r][k].iteration = dispatchLog[r][m].iteration
                   => dispatchLog[r][k].userUploadEnv
                        = dispatchLog[r][m].userUploadEnv

C29_Witness ==
  /\ Len(requests[1]) = 2
  /\ iterations[1] = 2
  /\ Len(userUploadEnvs[1]) = 2
  /\ Len(dispatchLog[1]) = 4
  /\ dispatchLog[1][1].iteration = 1
  /\ dispatchLog[1][2].iteration = 1
  /\ dispatchLog[1][2].userUploadEnv = UploadEnvAt(0)
  /\ dispatchLog[1][3].iteration = 2
  /\ dispatchLog[1][4].iteration = 2
  /\ dispatchLog[1][4].iterationCount = 2
  /\ dispatchLog[1][3].userUploadEnv = UploadEnvAt(1)
  /\ dispatchLog[1][4].userUploadEnv = UploadEnvAt(1)

\* --------------------------------------------------------------------- C30
\* The totals that n reported durations can add up to.
RECURSIVE DurationSums(_)
DurationSums(n) ==
  IF n = 0 THEN {0}
  ELSE { total + d : total \in DurationSums(n - 1), d \in Durations }

\* C30 (as claimed): the duration of a persisted record is the sum of the
\* durations the collectors of the run's completed dispatches reported, one
\* per entry of its responsesInfo.
C30_DurationIsSum ==
  \A k \in 1..Len(store) :
    store[k].duration \in DurationSums(Len(store[k].responsesInfo))

\* What the code keeps: the sum starts from the 1 of line 753.
C30_DurationIsSumPlusOne ==
  \A k \in 1..Len(store) :
    (store[k].duration - 1) \in DurationSums(Len(store[k].responsesInfo))

\* The duration of testCtx never decreases during a run.
C30_DurationNeverDecreases ==
  [][ \A r \in Runs :
        pc[r] # "idle" => testCtx'[r].duration >= testCtx[r].duration ]_vars

\* --------------------------------------------------------------------- C31
\* The place of the item with the key in the list shown.
PlaceOf(items, key) == CHOOSE k \in 1..Len(items) : items[k].id = key

C31_FormState ==
  /\ formIterations \in Nat
  /\ formIterations >= 1
  /\ formDelay \in Nat
  /\ \A r \in Runs :
       pc[r] # "idle"
         => /\ iterations[r] \in Nat
            /\ iterations[r] >= 1
            /\ delay[r] \in Nat

C31_Submission ==
  \A r \in Runs :
    (pc[r] = "idle" /\ pc'[r] # "idle")
      => /\ iterations'[r] = formIterations
         /\ delay'[r] = formDelay
         /\ { requests'[r][k].id : k \in 1..Len(requests'[r]) } = selectedKeys
         /\ \A k \in 1..Len(requests'[r]) :
              requests'[r][k] = reqListItems[PlaceOf(reqListItems, requests'[r][k].id)]
         /\ \A k, m \in 1..Len(requests'[r]) :
              k < m => PlaceOf(reqListItems, requests'[r][k].id)
                         < PlaceOf(reqListItems, requests'[r][m].id)

=============================================================================
